---- MODULE Spec2Model ----
(***************************************************************************)
(* A model of purple.py, the compositing program of purple.com: the site   *)
(* configuration (Site.__init__), the scan of the source tree (main,       *)
(* Site.act_on_dir, Site.act_on_file, the compositors' composite), and the *)
(* write phase (Site.write_all, the compositors' write and                 *)
(* TimestampCompositorHelper.write).                                       *)
(*                                                                         *)
(* Paths are sequences of path components, relative to the source root     *)
(* (and, after os.chdir, to the production root).  A pattern is a literal  *)
(* regular expression that ends on a component boundary: re.match anchors  *)
(* it at the start of the path only, so it matches the paths it prefixes.  *)
(* Python dicts are sequences of <<key, value>> pairs in insertion order.  *)
(***************************************************************************)
EXTENDS Integers, Sequences, FiniteSets, TLC

VARIABLES
    config,      \* the lines of the config file
    dryrun,      \* --dryrun
    srcOk,       \* source file -> os.stat of it succeeds
    srcMtime,    \* source file -> st_mtime
    content,     \* source file -> its page spec (date, keywords)
    dstKind,     \* production path -> "none" | "dir" | "file"
    dstMtime,    \* production path -> st_mtime (of a file)
    now,         \* the filesystem clock
    pc,          \* position of main: "init" "scan" "mkdir" "flush" "done" "crashed"
    build,       \* number of the run of main
    walkIdx,     \* position in os.walk's sequence
    dirIdx,      \* position in write_all's loop over directories
    flushIdx,    \* position in write_all's loop over actions.values()
    regexes,     \* Site.regexes
    actions,     \* Site.actions: dict pattern -> <<template, compositor>>
    templates,   \* Site.templates: the template names loaded
    directories, \* Site.directories
    comps,       \* the compositor instances, in order of construction
    blog,        \* BlogCompositor's class attributes pre_pages, slugs, keywords
    log,         \* history: the calls made and the file system operations done
    page_spec,   \* the lines of the page spec file given to read_page_spec
    spec         \* what read_page_spec returned: dict key -> value

vars == <<config, dryrun, srcOk, srcMtime, content, dstKind, dstMtime, now, pc,
          build, walkIdx, dirIdx, flushIdx, regexes, actions, templates,
          directories, comps, blog, log, page_spec, spec>>

envVars == <<config, dryrun, srcOk, srcMtime, content>>
siteVars == <<regexes, actions, templates, directories, comps, blog>>
parseVars == <<page_spec, spec>>

----------------------------------------------------------------------------
(* Bounds *)

MaxRules == 2
MaxTime == 2
MaxBuilds == 2

----------------------------------------------------------------------------
(* The source tree and the vocabulary of the configuration *)

Root == <<>>
DirA == <<"a">>
DirAB == <<"a", "b">>
FileD == <<"a", "d">>
FileE == <<"a", "e">>
FileC == <<"a", "b", "c">>

Dirs == {Root, DirA, DirAB}
Files == {FileC, FileD, FileE}
Paths == Dirs \cup Files

\* os.walk('.'), top-down: each directory, then the files in it.
Walk ==
    << [t |-> "dir", p |-> Root],
       [t |-> "dir", p |-> DirA],
       [t |-> "file", p |-> FileD],
       [t |-> "file", p |-> FileE],
       [t |-> "dir", p |-> DirAB],
       [t |-> "file", p |-> FileC] >>

Patterns == {DirA, DirAB}
Templates == {"template1", "template2"}
Kinds == {"NullCompositor", "CopyCompositor", "StaticCompositor",
          "ImageCompositor", "BlogCompositor"}

\* The classes that hold a TimestampCompositorHelper.
WithHelper == {"CopyCompositor", "StaticCompositor", "ImageCompositor"}

Parent(p) == SubSeq(p, 1, Len(p) - 1)

----------------------------------------------------------------------------
(* Python dicts *)

RECURSIVE DictHas(_, _)
DictHas(d, k) ==
    IF d = <<>> THEN FALSE
    ELSE IF Head(d)[1] = k THEN TRUE ELSE DictHas(Tail(d), k)

RECURSIVE DictGet(_, _, _)
DictGet(d, k, default) ==
    IF d = <<>> THEN default
    ELSE IF Head(d)[1] = k THEN Head(d)[2] ELSE DictGet(Tail(d), k, default)

\* d[k] = v: a present key keeps its place, a new key goes last.
RECURSIVE DictPut(_, _, _)
DictPut(d, k, v) ==
    IF d = <<>> THEN << <<k, v>> >>
    ELSE IF Head(d)[1] = k THEN << <<k, v>> >> \o Tail(d)
    ELSE <<Head(d)>> \o DictPut(Tail(d), k, v)

DictKeys(d) == {d[i][1] : i \in 1..Len(d)}

----------------------------------------------------------------------------
(* The history and TimestampCompositorHelper.write *)

\* An entry of the history: a call made or a file system operation done.
Event(op, path, comp, tmpl, ex, dt, st) ==
    [op |-> op, path |-> path, comp |-> comp, tmpl |-> tmpl, ex |-> ex,
     dt |-> dt, st |-> st, pc |-> pc, build |-> build, at |-> now]

\* needs_update = (dst_time < src_time), with dst_time = 0 when os.stat of
\* the destination raises OSError.
DstTime(kind, mtime, filename) ==
    IF kind[filename] = "file" THEN mtime[filename] ELSE 0

\* Mutants of NeedsUpdate: a destination as old as its source is rewritten;
\* every destination is rewritten.
NeedsUpdateOrEqual(dst_time, src_time) == dst_time <= src_time
NeedsUpdateAlways(dst_time, src_time) == TRUE

NeedsUpdate(dst_time, src_time) == dst_time < src_time

\* file_action(filename, source_filename): open(dest_filename, 'w') raises
\* IOError when the directory of the destination is not a directory;
\* static_render looks the source up in self.pages first.
ActionRaises(c, kind, filename) ==
    \/ kind[Parent(filename)] # "dir"
    \/ c.kind = "StaticCompositor" /\ ~DictHas(c.pages, filename)

\* TimestampCompositorHelper.write: the loop over self.files.items(), from
\* entry i on.  fs holds the production tree, the events and whether the
\* file action raised.
RECURSIVE HelperWrite(_, _, _, _)
HelperWrite(c, id, i, fs) ==
    IF i > Len(c.files) \/ fs.raised THEN fs
    ELSE LET filename == c.files[i][1]
             src_time == c.files[i][2]
             dst_time == DstTime(fs.kind, fs.mtime, filename)
             existed == fs.kind[filename] = "file"
             mtime == fs.mtime[filename]
         IN IF ~NeedsUpdate(dst_time, src_time)
            THEN HelperWrite(c, id, i + 1, fs)
            ELSE IF ActionRaises(c, fs.kind, filename)
            THEN [fs EXCEPT !.raised = TRUE,
                            !.events = Append(@, Event("writefail", filename,
                                id, "", existed, mtime, src_time))]
            ELSE HelperWrite(c, id, i + 1,
                     [kind |-> [fs.kind EXCEPT ![filename] = "file"],
                      mtime |-> [fs.mtime EXCEPT ![filename] = now],
                      events |-> Append(fs.events, Event("write", filename,
                                     id, "", existed, mtime, src_time)),
                      raised |-> FALSE])

----------------------------------------------------------------------------
(* Site.__init__ *)

RuleLines == [t : {"rule"}, re : Patterns, template : Templates, comp : Kinds]
CommentLine == [t |-> "comment", re |-> Root, template |-> "", comp |-> ""]
EmptyLine == [t |-> "empty", re |-> Root, template |-> "", comp |-> ""]

\* A compositor as its constructor leaves it.  files is the dict of its
\* TimestampCompositorHelper, pages the dict of a StaticCompositor.
NewCompositor(kind) == [kind |-> kind, files |-> <<>>, pages |-> <<>>]

\* BlogCompositor's class attributes as the class statement leaves them.
BlogClassState == [pre_pages |-> <<>>, slugs |-> <<>>, keywords |-> {}]

\* The guard of the loop over the lines: line[0] != '#' and len(line) > 0.
\* readlines() keeps the newline, so an empty line is "\n" and passes it.
IsParsed(line) == line.t # "comment"

\* line.split() into three names: an empty line splits into none, and the
\* assignment raises ValueError.
SplitsInThree(line) == line.t = "rule"

\* The loop over the lines of the config file, from line i on.  st holds
\* regexes, actions, templates, comps and whether an exception was raised.
RECURSIVE LoadConfig(_, _, _)
LoadConfig(lines, i, st) ==
    IF i > Len(lines) \/ st.raised THEN st
    ELSE LET line == lines[i] IN
         IF ~IsParsed(line) THEN LoadConfig(lines, i + 1, st)
         ELSE IF ~SplitsInThree(line) THEN [st EXCEPT !.raised = TRUE]
         ELSE LET compositor == Len(st.comps) + 1 IN
              LoadConfig(lines, i + 1,
                  [regexes |-> Append(st.regexes, line.re),
                   actions |-> DictPut(st.actions, line.re,
                                       <<line.template, compositor>>),
                   templates |-> st.templates \cup {line.template},
                   comps |-> Append(st.comps, NewCompositor(line.comp)),
                   raised |-> FALSE])

\* directories, actions, regexes and templates are class attributes of Site:
\* __init__ adds to what the class holds.
ClassState == [regexes |-> regexes, actions |-> actions,
               templates |-> templates, comps |-> comps, raised |-> FALSE]

\* site = Site(args.config_path, args.source_path, args.dryrun, args.verbose)
SiteInit ==
    /\ pc = "init"
    /\ LET st == LoadConfig(config, 1, ClassState) IN
        /\ regexes' = st.regexes
        /\ actions' = st.actions
        /\ templates' = st.templates
        /\ comps' = st.comps
        /\ pc' = IF st.raised THEN "crashed" ELSE "scan"
    /\ walkIdx' = 1
    /\ UNCHANGED <<envVars, dstKind, dstMtime, now, build, dirIdx, flushIdx,
                   directories, blog, log>>
    /\ UNCHANGED parseVars

----------------------------------------------------------------------------
(* The scan: main's loop over os.walk, act_on_dir, act_on_file, composite *)

\* regex.match(filename): the pattern matches at the start of the path.
Match(re, filename) ==
    /\ Len(re) <= Len(filename)
    /\ SubSeq(filename, 1, Len(re)) = re

\* Mutant of FirstMatch: the longest regex that matches wins.
RECURSIVE LongestMatch(_, _, _)
LongestMatch(res, i, filename) ==
    IF i > Len(res) THEN 0
    ELSE LET rest == LongestMatch(res, i + 1, filename) IN
         IF ~Match(res[i], filename) THEN rest
         ELSE IF rest # 0 /\ Len(res[rest]) > Len(res[i]) THEN rest
         ELSE i

\* The index in Site.regexes of the first regex that matches, 0 if none does.
RECURSIVE FirstMatch(_, _, _)
FirstMatch(res, i, filename) ==
    IF i > Len(res) THEN 0
    ELSE IF Match(res[i], filename) THEN i
    ELSE FirstMatch(res, i + 1, filename)

\* Mutant of HelperComposite: the file is processed as soon as it is noted.
HelperCompositeEager(c, id, filename, fs) ==
    IF dryrun THEN [c |-> c, fs |-> fs, raised |-> FALSE]
    ELSE IF ~srcOk[filename] THEN [c |-> c, fs |-> fs, raised |-> TRUE]
    ELSE LET noted == [c EXCEPT !.files = <<<<filename, srcMtime[filename]>>>>]
             written == HelperWrite(noted, id, 1, fs)
         IN [c |-> [c EXCEPT !.files = DictPut(@, filename,
                                                  srcMtime[filename])],
             fs |-> [written EXCEPT !.raised = FALSE],
             raised |-> written.raised]

\* TimestampCompositorHelper.composite.  When os.stat raises OSError the
\* handler prints and falls through to self.files[filename] = src_time with
\* src_time unbound: UnboundLocalError.
\* It leaves the production tree fs as it is.
HelperComposite(c, id, filename, fs) ==
    IF dryrun THEN [c |-> c, fs |-> fs, raised |-> FALSE]
    ELSE IF ~srcOk[filename] THEN [c |-> c, fs |-> fs, raised |-> TRUE]
    ELSE [c |-> [c EXCEPT !.files = DictPut(@, filename, srcMtime[filename])],
          fs |-> fs, raised |-> FALSE]

\* dateutil.parser.parse, then '{y}-{m:02d}-{d:02d}'.
Slug(publication_date) ==
    CASE publication_date = "2020-01-01" -> "2020-01-01"
      [] publication_date = "2020-01-05" -> "2020-01-05"
      [] publication_date = "Jan 5 2020" -> "2020-01-05"
      [] publication_date = "2020-01-10" -> "2020-01-10"

\* value_map.get('keywords', '').split(',')
SplitKeywords(csv) ==
    CASE csv = "" -> {""}
      [] csv = "x" -> {"x"}
      [] csv = "y" -> {"y"}
      [] csv = "x,y" -> {"x", "y"}
      [] csv = "z" -> {"z"}

\* self.pre_pages, self.slugs and self.keywords of BlogCompositor number id.
\* __init__ assigns dryrun and verbose only and composite changes the three
\* objects in place, so the lookup ends at the class attributes for every
\* instance.
BlogStateOf(id) == blog

\* Mutant of BlogComposite: a page without publication_date is recorded
\* like any other, under the slug of no date.
BlogCompositeUndated(b, filename, template) ==
    IF ~srcOk[filename] THEN [b |-> b, raised |-> TRUE]
    ELSE LET value_map == content[filename]
             slug == IF DictHas(value_map, "publication_date")
                     THEN Slug(DictGet(value_map, "publication_date", ""))
                     ELSE ""
             with_slug == DictPut(value_map, "slug", slug)
         IN IF DictHas(b.slugs, slug) THEN [b |-> b, raised |-> TRUE]
            ELSE [b |-> [pre_pages |-> DictPut(b.pre_pages, filename,
                                               <<template, with_slug>>),
                         slugs |-> DictPut(b.slugs, slug, {filename}),
                         keywords |-> b.keywords \cup SplitKeywords(
                             DictGet(value_map, "keywords", ""))],
                  raised |-> FALSE]

\* BlogCompositor.composite past the dryrun test.  open() of a file that
\* cannot be stat'd raises IOError; set.add([filename]) raises TypeError.
BlogComposite(b, filename, template) ==
    IF ~srcOk[filename] THEN [b |-> b, raised |-> TRUE]
    ELSE LET value_map == content[filename] IN
         IF ~DictHas(value_map, "publication_date")
         THEN [b |-> b, raised |-> FALSE]
         ELSE LET slug == Slug(DictGet(value_map, "publication_date", ""))
                  with_slug == DictPut(value_map, "slug", slug)
              IN IF DictHas(b.slugs, slug) THEN [b |-> b, raised |-> TRUE]
                 ELSE [b |-> [pre_pages |-> DictPut(b.pre_pages, filename,
                                                    <<template, with_slug>>),
                              slugs |-> DictPut(b.slugs, slug, {filename}),
                              keywords |-> b.keywords \cup SplitKeywords(
                                  DictGet(value_map, "keywords", ""))],
                       raised |-> FALSE]

\* compositor.composite(filename, template_contents), by class.  The result
\* holds the compositor, BlogCompositor's class state, the production tree
\* and whether the call raised.
Composite(c, id, b, filename, template, fs) ==
    IF c.kind = "NullCompositor" \/ dryrun
    THEN [c |-> c, b |-> b, fs |-> fs, raised |-> FALSE]
    ELSE IF c.kind = "StaticCompositor"
    THEN LET r == HelperComposite(
                      [c EXCEPT !.pages = DictPut(@, filename, template)],
                      id, filename, fs)
         IN [c |-> r.c, b |-> b, fs |-> r.fs, raised |-> r.raised]
    ELSE IF c.kind = "BlogCompositor"
    THEN LET r == BlogComposite(b, filename, template)
         IN [c |-> c, b |-> r.b, fs |-> fs, raised |-> r.raised]
    ELSE LET r == HelperComposite(c, id, filename, fs)
         IN [c |-> r.c, b |-> b, fs |-> r.fs, raised |-> r.raised]

\* Where main goes after the step at position walkIdx of the walk.
AfterWalkStep == IF walkIdx = Len(Walk) THEN "mkdir" ELSE "scan"

\* site.act_on_dir(dir_name)
ActOnDir ==
    /\ pc = "scan"
    /\ Walk[walkIdx].t = "dir"
    /\ directories' = Append(directories, Walk[walkIdx].p)
    /\ walkIdx' = walkIdx + 1
    /\ dirIdx' = 1
    /\ pc' = AfterWalkStep
    /\ UNCHANGED <<envVars, dstKind, dstMtime, now, build, flushIdx, regexes,
                   actions, templates, comps, blog, log>>
    /\ UNCHANGED parseVars

\* site.act_on_file(os.path.join(dir_name, filename))
ActOnFile ==
    /\ pc = "scan"
    /\ Walk[walkIdx].t = "file"
    /\ LET filename == Walk[walkIdx].p
           hit == FirstMatch(regexes, 1, filename)
       IN IF hit = 0
          THEN /\ log' = Append(log, Event("nomatch", filename, 0, "",
                                           TRUE, 0, 0))
               /\ pc' = AfterWalkStep
               /\ UNCHANGED <<comps, blog, dstKind, dstMtime>>
          ELSE LET entry == DictGet(actions, regexes[hit], <<"", 0>>)
                   template == entry[1]
                   compositor == entry[2]
               IN IF compositor = 0 \/ template \notin templates
                  THEN /\ pc' = AfterWalkStep
                       /\ UNCHANGED <<comps, blog, dstKind, dstMtime, log>>
                  ELSE LET r == Composite(comps[compositor], compositor, blog,
                                    filename, template,
                                    [kind |-> dstKind, mtime |-> dstMtime,
                                     events |-> <<>>, raised |-> FALSE])
                           called == Event("composite", filename, compositor,
                                           template, ~r.raised, 0,
                                           IF srcOk[filename]
                                           THEN srcMtime[filename] ELSE 0)
                       IN /\ comps' = [comps EXCEPT ![compositor] = r.c]
                          /\ blog' = r.b
                          /\ dstKind' = r.fs.kind
                          /\ dstMtime' = r.fs.mtime
                          /\ log' = Append(log, called) \o r.fs.events
                          /\ pc' = IF r.raised THEN "crashed"
                                   ELSE AfterWalkStep
    /\ walkIdx' = walkIdx + 1
    /\ dirIdx' = 1
    /\ UNCHANGED <<envVars, now, build, flushIdx, regexes, actions, templates,
                   directories>>
    /\ UNCHANGED parseVars

----------------------------------------------------------------------------
(* Site.write_all *)

\* Where write_all goes after its loop over the directories.
AfterMkdirs == IF Len(actions) = 0 THEN "done" ELSE "flush"

\* Mutant of MkdirStep: the loop passes over a missing directory without
\* creating it.
MkdirStepSkip ==
    /\ pc = "mkdir"
    /\ pc' = IF dirIdx = Len(directories) THEN AfterMkdirs ELSE "mkdir"
    /\ dirIdx' = dirIdx + 1
    /\ flushIdx' = 1
    /\ UNCHANGED <<envVars, dstKind, dstMtime, now, build, walkIdx, siteVars,
                   log>>
    /\ UNCHANGED parseVars

\* One turn of "for directory in self.directories": os.mkdir of a missing
\* directory raises OSError when its parent is not a directory.  The loop
\* does not look at self.dryrun.
MkdirStep ==
    /\ pc = "mkdir"
    /\ LET directory == directories[dirIdx]
           last == dirIdx = Len(directories)
       IN IF dstKind[directory] # "none"
          THEN /\ pc' = IF last THEN AfterMkdirs ELSE "mkdir"
               /\ UNCHANGED <<dstKind, log>>
          ELSE IF dstKind[Parent(directory)] = "dir"
          THEN /\ dstKind' = [dstKind EXCEPT ![directory] = "dir"]
               /\ log' = Append(log, Event("mkdir", directory, 0, "",
                                           FALSE, 0, 0))
               /\ pc' = IF last THEN AfterMkdirs ELSE "mkdir"
          ELSE /\ pc' = "crashed"
               /\ UNCHANGED <<dstKind, log>>
    /\ dirIdx' = dirIdx + 1
    /\ flushIdx' = 1
    /\ UNCHANGED <<envVars, dstMtime, now, build, walkIdx, siteVars>>
    /\ UNCHANGED parseVars

\* compositor.write(), by class: NullCompositor and BlogCompositor write
\* nothing, the others hand their file action to the timestamp helper.
CompositorWrite(c, id, fs) ==
    IF dryrun \/ c.kind \in {"NullCompositor", "BlogCompositor"} THEN fs
    ELSE HelperWrite(c, id, 1, fs)

\* One turn of "for dummy_template, compositor in self.actions.values()".
FlushStep ==
    /\ pc = "flush"
    /\ LET compositor == actions[flushIdx][2][2]
           called == Append(log, Event("flush", Root, compositor, "",
                                       FALSE, 0, 0))
           fs == CompositorWrite(comps[compositor], compositor,
                     [kind |-> dstKind, mtime |-> dstMtime,
                      events |-> called, raised |-> FALSE])
       IN /\ dstKind' = fs.kind
          /\ dstMtime' = fs.mtime
          /\ log' = fs.events
          /\ pc' = IF fs.raised THEN "crashed"
                   ELSE IF flushIdx = Len(actions) THEN "done" ELSE "flush"
    /\ flushIdx' = flushIdx + 1
    /\ UNCHANGED <<envVars, now, build, walkIdx, dirIdx, siteVars>>
    /\ UNCHANGED parseVars

----------------------------------------------------------------------------
(* The environment between two runs of the program *)

\* The clock advances.
Tick ==
    /\ pc = "done"
    /\ build < MaxBuilds
    /\ now < MaxTime
    /\ now' = now + 1
    /\ UNCHANGED <<envVars, dstKind, dstMtime, pc, build, walkIdx, dirIdx,
                   flushIdx, siteVars, log>>
    /\ UNCHANGED parseVars

\* A source file is modified: its mtime becomes the time of the clock.
Touch(f) ==
    /\ pc = "done"
    /\ build < MaxBuilds
    /\ srcOk[f]
    /\ srcMtime[f] # now
    /\ \A i \in 1..Len(log) : log[i].op # "touch"
    /\ srcMtime' = [srcMtime EXCEPT ![f] = now]
    /\ log' = Append(log, Event("touch", f, 0, "", TRUE, 0, now))
    /\ UNCHANGED <<config, dryrun, srcOk, content, dstKind, dstMtime, now, pc,
                   build, walkIdx, dirIdx, flushIdx, siteVars>>
    /\ UNCHANGED parseVars

\* The program is run again: a new process, in which the class statements
\* have just built the class attributes.
Restart ==
    /\ pc = "done"
    /\ build < MaxBuilds
    /\ pc' = "init"
    /\ build' = build + 1
    /\ walkIdx' = 1
    /\ dirIdx' = 1
    /\ flushIdx' = 1
    /\ regexes' = <<>>
    /\ actions' = <<>>
    /\ templates' = {}
    /\ directories' = <<>>
    /\ comps' = <<>>
    /\ blog' = BlogClassState
    /\ UNCHANGED <<envVars, dstKind, dstMtime, now, log>>
    /\ UNCHANGED parseVars

----------------------------------------------------------------------------
(* Initial states and specifications *)

Lines == RuleLines \cup {CommentLine, EmptyLine}
Configs == UNION {[1..n -> Lines] : n \in 1..MaxRules}

\* Three posts on three days; the keywords of A(x), B(x,y), C(y).
BaseContent ==
    [f \in Files |->
        IF f = FileD THEN << <<"publication_date", "2020-01-01">>,
                             <<"keywords", "x">> >>
        ELSE IF f = FileE THEN << <<"publication_date", "2020-01-05">>,
                                  <<"keywords", "x,y">> >>
        ELSE << <<"publication_date", "2020-01-10">>, <<"keywords", "y">> >>]

\* The production directory exists; what is in it varies.
EmptyProduction == [p \in Paths |-> IF p = Root THEN "dir" ELSE "none"]

\* The state of a process that has just started.
Started ==
    /\ pc = "init"
    /\ build = 1
    /\ walkIdx = 1
    /\ dirIdx = 1
    /\ flushIdx = 1
    /\ regexes = <<>>
    /\ actions = <<>>
    /\ templates = {}
    /\ directories = <<>>
    /\ comps = <<>>
    /\ blog = BlogClassState
    /\ log = <<>>
    /\ page_spec = <<>>
    /\ spec = <<>>

\* One run over any configuration; at most one source that cannot be
\* stat'd (a dangling symbolic link), at most one production path taken by
\* a regular file.
Init ==
    /\ config \in Configs
    /\ dryrun \in BOOLEAN
    /\ srcOk \in {ok \in [Files -> BOOLEAN] :
                     Cardinality({f \in Files : ~ok[f]}) <= 1}
    /\ srcMtime = [f \in Files |-> 1]
    /\ content = BaseContent
    /\ \E taken \in {{}, {DirA}, {DirAB}} :
           dstKind = [p \in Paths |->
                         IF p = Root \/ (p = DirA /\ taken = {DirAB})
                         THEN "dir"
                         ELSE IF p \in taken THEN "file" ELSE "none"]
    /\ dstMtime = [p \in Paths |-> 0]
    /\ now = 1
    /\ Started

Next ==
    \/ SiteInit
    \/ ActOnDir
    \/ ActOnFile
    \/ MkdirStep
    \/ FlushStep

Spec == Init /\ [][Next]_vars

\* Repeated runs of the compositors that check timestamps, over sources of
\* any age, with a source modified between the runs.
RebuildLines ==
    {l \in RuleLines : l.template = "template1" /\ l.comp \in WithHelper}
RebuildConfigs == UNION {[1..n -> RebuildLines] : n \in 1..MaxRules}

InitRebuild ==
    /\ config \in RebuildConfigs
    /\ dryrun \in BOOLEAN
    /\ srcOk = [f \in Files |-> TRUE]
    /\ \E t \in 0..MaxTime : srcMtime = [f \in Files |-> t]
    /\ content = BaseContent
    /\ dstKind = EmptyProduction
    /\ dstMtime = [p \in Paths |-> 0]
    /\ now = 1
    /\ Started

NextRebuild ==
    \/ Next
    \/ Tick
    \/ \E f \in Files : Touch(f)
    \/ Restart

SpecRebuild == InitRebuild /\ [][NextRebuild]_vars

----------------------------------------------------------------------------
(* The blog over posts of any kind *)

\* A post without publication_date, and a post of the day of a/e whose date
\* is written otherwise.
Undated == <<<<"keywords", "z">>>>
SameDay == <<<<"publication_date", "Jan 5 2020">>, <<"keywords", "x">>>>

\* What read_page_spec may return for the sources.
Contents ==
    {c \in [Files -> {BaseContent[f] : f \in Files} \cup {Undated, SameDay}] :
        \A f \in Files : c[f] \in {BaseContent[f], Undated, SameDay}}

BlogLines ==
    {l \in RuleLines : l.template = "template1" /\ l.comp = "BlogCompositor"}
BlogConfigs == UNION {[1..n -> BlogLines] : n \in 1..MaxRules}

InitBlog ==
    /\ config \in BlogConfigs
    /\ dryrun \in BOOLEAN
    /\ srcOk = [f \in Files |-> TRUE]
    /\ srcMtime = [f \in Files |-> 1]
    /\ content \in Contents
    /\ dstKind = EmptyProduction
    /\ dstMtime = [p \in Paths |-> 0]
    /\ now = 1
    /\ Started

SpecBlog == InitBlog /\ [][Next]_vars

----------------------------------------------------------------------------
(* read_page_spec *)

\* The longest page spec file read, in lines.
MaxLines == 3

\* Characters: \w matches the letters, and rstrip() takes off blanks and
\* the newline that readlines() leaves at the end of a line.
WordChars == {"k", "j", "v"}
Whitespace == {" ", "\n"}

\* The lines a page spec file is made of, without their newline: the
\* markers :k: and :j:, a marker followed by a blank, a colon and a word,
\* text, text followed by a blank, and the empty line.
SpecLines ==
    {<<":", "k", ":">>, <<":", "j", ":">>, <<":", "k", ":", " ">>,
     <<":", "k">>, <<"v">>, <<"v", " ">>, <<>>}

PageSpecFiles == UNION {[1..n -> SpecLines] : n \in 0..MaxLines}

\* page_spec_fp.readlines(): every line with its newline.
Readlines(file) == [i \in 1..Len(file) |-> file[i] \o <<"\n">>]

\* line.rstrip()
RECURSIVE RStrip(_)
RStrip(line) ==
    IF line # <<>> /\ line[Len(line)] \in Whitespace
    THEN RStrip(SubSeq(line, 1, Len(line) - 1))
    ELSE line

\* re.match(r'^:\w+:$', line)
IsMarker(line) ==
    /\ Len(line) >= 3
    /\ line[1] = ":"
    /\ line[Len(line)] = ":"
    /\ \A i \in 2..(Len(line) - 1) : line[i] \in WordChars

\* '\n'.join(value)
RECURSIVE Join(_)
Join(value) ==
    IF value = <<>> THEN <<>>
    ELSE IF Len(value) = 1 THEN value[1]
    ELSE value[1] \o <<"\n">> \o Join(Tail(value))

\* key = None.  No key is the empty string: \w+ takes a character at least.
None == <<>>

\* The loop over the lines, from line i on; st holds spec, key and value.
\* value is emptied where a pair is put into spec, that is, not at the
\* first marker.
RECURSIVE ReadLines(_, _, _)
ReadLines(lines, i, st) ==
    IF i > Len(lines) THEN st
    ELSE LET line == RStrip(lines[i]) IN
         IF IsMarker(line)
         THEN ReadLines(lines, i + 1,
                  [spec |-> IF st.key # None
                            THEN DictPut(st.spec, st.key, Join(st.value))
                            ELSE st.spec,
                   key |-> SubSeq(line, 2, Len(line) - 1),
                   value |-> IF st.key # None THEN <<>> ELSE st.value])
         ELSE ReadLines(lines, i + 1, [st EXCEPT !.value = Append(@, line)])

\* Mutant of ReadPageSpec: the pair of the last key is not put into spec.
ReadPageSpecNoLast(file) ==
    ReadLines(Readlines(file), 1,
              [spec |-> <<>>, key |-> None, value |-> <<>>]).spec

\* read_page_spec(filename), over the lines of the file.
ReadPageSpec(file) ==
    LET st == ReadLines(Readlines(file), 1,
                        [spec |-> <<>>, key |-> None, value |-> <<>>])
    IN IF st.key # None THEN DictPut(st.spec, st.key, Join(st.value))
       ELSE st.spec

\* value_map = read_page_spec(filename)
ReadPageSpecCall ==
    /\ pc = "read"
    /\ spec' = ReadPageSpec(page_spec)
    /\ pc' = "parsed"
    /\ UNCHANGED <<envVars, dstKind, dstMtime, now, build, walkIdx, dirIdx,
                   flushIdx, siteVars, log, page_spec>>

\* read_page_spec on any file, outside a run of main.
InitParse ==
    /\ page_spec \in PageSpecFiles
    /\ spec = <<>>
    /\ pc = "read"
    /\ config = <<CommentLine>>
    /\ dryrun = FALSE
    /\ srcOk = [f \in Files |-> TRUE]
    /\ srcMtime = [f \in Files |-> 1]
    /\ content = BaseContent
    /\ dstKind = EmptyProduction
    /\ dstMtime = [p \in Paths |-> 0]
    /\ now = 1
    /\ build = 1
    /\ walkIdx = 1
    /\ dirIdx = 1
    /\ flushIdx = 1
    /\ regexes = <<>>
    /\ actions = <<>>
    /\ templates = {}
    /\ directories = <<>>
    /\ comps = <<>>
    /\ blog = BlogClassState
    /\ log = <<>>

NextParse == ReadPageSpecCall

SpecParse == InitParse /\ [][NextParse]_vars

----------------------------------------------------------------------------

(* Reading the history *)

Events == 1..Len(log)

\* The class of compositor number id: that of the id-th rule line.
InstanceKind(id) == SelectSeq(config, LAMBDA l : l.t = "rule")[id].comp

\* Event i is a composite call that noted a source with the timestamp helper.
Noted(i) ==
    /\ log[i].op = "composite"
    /\ log[i].ex
    /\ ~dryrun
    /\ InstanceKind(log[i].comp) \in WithHelper

\* The file actions invoked on path in run b.
WritesOf(path, b) ==
    {i \in Events : /\ log[i].op \in {"write", "writefail"}
                    /\ log[i].path = path
                    /\ log[i].build = b}

Touched == \E i \in Events : log[i].op = "touch"

----------------------------------------------------------------------------
(* C1..C3: the timestamp helper *)

C2_StaleAlwaysRegenerated ==
    pc = "done" =>
        \A j \in Events :
            (Noted(j) /\ log[j].build = build) =>
                LET n == Cardinality(WritesOf(log[j].path, build)) IN
                /\ n <= 1
                /\ n = 0 => /\ dstKind[log[j].path] = "file"
                            /\ dstMtime[log[j].path] >= log[j].st

----------------------------------------------------------------------------
(* C4..C6: the two phases of a run *)

Flushes(id, b) ==
    {i \in Events : log[i].op = "flush" /\ log[i].comp = id /\ log[i].build = b}

\* The run is over and had entered write_all.
WriteAllEnded ==
    \/ pc = "done"
    \/ /\ pc = "crashed"
       /\ walkIdx > Len(Walk)
       /\ \A i \in Events : log[i].op = "composite" => log[i].ex

\* C4: no compositor is flushed twice; when write_all is over, every
\* compositor the rule table dispatches to, and every compositor that
\* received a composite call, has been flushed exactly once.
C4_EveryCompositorFlushedOnce ==
    /\ \A id \in 1..Len(comps) : Cardinality(Flushes(id, build)) <= 1
    /\ WriteAllEnded =>
           /\ \A k \in 1..Len(actions) :
                  Cardinality(Flushes(actions[k][2][2], build)) = 1
           /\ \A i \in Events :
                  (log[i].op = "composite" /\ log[i].build = build)
                      => Cardinality(Flushes(log[i].comp, build)) = 1

\* C5: every file action runs inside a flush; as long as the first run is
\* in its scan no production file exists; a compositor's composite calls all
\* come before its flush.
C5_WritesOnlyInFlush ==
    /\ \A i \in Events :
           log[i].op \in {"write", "writefail"} => log[i].pc = "flush"
    /\ (build = 1 /\ pc \in {"init", "scan"}) =>
           \A f \in Files : dstKind[f] = "none"
    /\ \A i, j \in Events :
           (/\ log[i].op = "flush"
            /\ log[j].op = "composite"
            /\ log[i].comp = log[j].comp
            /\ log[i].build = log[j].build) => j < i

\* C5's case: a compositor took two composite calls, was flushed after
\* them, and wrote both files in the flush.
C5_Witness ==
    /\ pc = "done"
    /\ \E i, j, k, w, x \in Events :
        /\ i < j /\ j < k /\ k < w /\ w < x
        /\ Noted(i) /\ Noted(j)
        /\ log[i].comp = log[j].comp
        /\ log[k].op = "flush" /\ log[k].comp = log[i].comp
        /\ log[w].op = "write" /\ log[w].path = log[i].path
        /\ log[x].op = "write" /\ log[x].path = log[j].path

\* C6: a dry run creates no directory, invokes no file action, leaves the
\* production tree without a/b, and leaves every compositor without
\* pending state.
C6_DryRunTouchesNothing ==
    dryrun =>
        /\ \A i \in Events : log[i].op \notin {"mkdir", "write", "writefail"}
        /\ dstKind[DirAB] # "dir"
        /\ \A id \in 1..Len(comps) :
               comps[id].files = <<>> /\ comps[id].pages = <<>>
        /\ blog = BlogClassState

----------------------------------------------------------------------------
(* C7, C8: the choice of the rule *)

Rules == SelectSeq(config, LAMBDA l : l.t = "rule")

\* The first rule of the configuration whose pattern matches, 0 if none.
RECURSIVE FirstRule(_, _)
FirstRule(i, filename) ==
    IF i > Len(Rules) THEN 0
    ELSE IF Match(Rules[i].re, filename) THEN i
    ELSE FirstRule(i + 1, filename)

\* C7: a file is dispatched to the template and to the compositor of the
\* first rule, in the order of the configuration, whose pattern matches it.
C7_FirstMatchingRuleWins ==
    \A i \in Events :
        log[i].op = "composite" =>
            LET k == FirstRule(1, log[i].path) IN
            /\ k # 0
            /\ log[i].comp = k
            /\ log[i].tmpl = Rules[k].template
            /\ comps[log[i].comp].kind = Rules[k].comp

\* The configuration of C8: a rule for a and a rule for a/b, in either
\* order, with different templates and compositors.
TwoPrefixRules ==
    /\ Len(config) = 2
    /\ config[1].t = "rule" /\ config[2].t = "rule"
    /\ {config[1].re, config[2].re} = {DirA, DirAB}
    /\ config[1].template # config[2].template
    /\ config[1].comp # config[2].comp

LongerRule == IF config[1].re = DirAB THEN 1 ELSE 2

\* C8 as claimed: a/b/c goes to the rule for a/b whichever was declared
\* first.
C8_LongestPrefixWins ==
    \A i \in Events :
        (TwoPrefixRules /\ log[i].op = "composite" /\ log[i].path = FileC) =>
            /\ log[i].comp = LongerRule
            /\ log[i].tmpl = config[LongerRule].template
            /\ comps[log[i].comp].kind = config[LongerRule].comp

\* C8 amended: a/b/c goes to whichever of the two rules was declared first.
C8_FirstDeclaredWins ==
    \A i \in Events :
        (TwoPrefixRules /\ log[i].op = "composite" /\ log[i].path = FileC) =>
            /\ log[i].comp = 1
            /\ log[i].tmpl = config[1].template
            /\ comps[log[i].comp].kind = config[1].comp

\* C8's case: the rule for a is declared first and a/b/c was dispatched.
C8_Witness ==
    /\ TwoPrefixRules
    /\ config[1].re = DirA
    /\ \E i \in Events : /\ log[i].op = "composite"
                         /\ log[i].path = FileC
                         /\ log[i].comp = 1

----------------------------------------------------------------------------
(* C9, C10 *)

\* C9: a composite call that notes a source that cannot be stat'd returns
\* normally and records no timestamp for it, and the run goes on.
C9_NoteFailsSoft ==
    \A i \in Events :
        (/\ log[i].op = "composite"
         /\ ~srcOk[log[i].path]
         /\ ~dryrun
         /\ InstanceKind(log[i].comp) \in WithHelper) =>
            /\ log[i].ex
            /\ pc # "crashed"
            /\ ~DictHas(comps[log[i].comp].files, log[i].path)

\* The day of a slug, for the chronological order.
Day(slug) ==
    CASE slug = "2020-01-01" -> 1
      [] slug = "2020-01-05" -> 5
      [] slug = "2020-01-10" -> 10

Accepted == DictKeys(blog.pre_pages)
ValueMap(f) == DictGet(blog.pre_pages, f, <<"", <<>>>>)[2]
DayOf(f) == Day(DictGet(ValueMap(f), "slug", ""))
Before(f) == {g \in Accepted : DayOf(g) < DayOf(f)}
After(f) == {g \in Accepted : DayOf(g) > DayOf(f)}

\* The link of page f under key is the page of to that is nearest to f, and
\* absent when to is empty.
Linked(f, key, to) ==
    IF to = {} THEN ~DictHas(ValueMap(f), key)
    ELSE /\ DictHas(ValueMap(f), key)
         /\ \E g \in to :
             /\ DictGet(ValueMap(f), key, Root) = g
             /\ \A h \in to : (DayOf(h) - DayOf(f)) * (DayOf(h) - DayOf(f))
                               >= (DayOf(g) - DayOf(f)) * (DayOf(g) - DayOf(f))

\* C10: when a run that accepted the three posts of 2020-01-01, 2020-01-05
\* and 2020-01-10 is over, each of them is written, and its previous_page
\* and next_page are its neighbours in the order of the slugs.
C10_BlogPagesLinkedAndWritten ==
    (pc = "done" /\ ~dryrun /\ Accepted = Files) =>
        \A f \in Accepted :
            /\ dstKind[f] = "file"
            /\ Linked(f, "previous_page", Before(f))
            /\ Linked(f, "next_page", After(f))

----------------------------------------------------------------------------
(* C11: the keyword contexts of the blog *)

\* The keywords of an accepted page.
KeywordsOf(f) == SplitKeywords(DictGet(ValueMap(f), "keywords", ""))

\* C11: when a run that accepted the posts A (keyword x), B (keywords x and
\* y) and C (keyword y) is over, each of them is written once under each of
\* its keywords, at {keyword}/{filename}: A and B under x, B and C under y.
C11_KeywordContextsWritten ==
    (pc = "done" /\ ~dryrun /\ Accepted = Files) =>
        \A f \in Accepted :
            \A keyword \in KeywordsOf(f) :
                Cardinality({i \in Events :
                                /\ log[i].op = "write"
                                /\ log[i].path = <<keyword>> \o f}) = 1

----------------------------------------------------------------------------
(* C12: a post without publication_date *)

\* Event i is a composite call, outside a dry run, that handed a source
\* without publication_date to a BlogCompositor.
UndatedCall(i) ==
    /\ log[i].op = "composite"
    /\ ~dryrun
    /\ comps[log[i].comp].kind = "BlogCompositor"
    /\ srcOk[log[i].path]
    /\ ~DictHas(content[log[i].path], "publication_date")

\* C12: a composite call on a source without publication_date returns
\* normally; from then on the source is in no entry of pre_pages and in no
\* set of slugs, the keywords are those of the accepted pages only, no file
\* action is invoked on it, no production file exists for it and no
\* accepted page has it as previous_page or next_page.
C12_UndatedPageExcluded ==
    \A i \in Events :
        UndatedCall(i) =>
            LET f == log[i].path IN
            /\ log[i].ex
            /\ f \notin Accepted
            /\ \A k \in 1..Len(blog.slugs) : f \notin blog.slugs[k][2]
            /\ blog.keywords = UNION {KeywordsOf(g) : g \in Accepted}
            /\ WritesOf(f, build) = {}
            /\ dstKind[f] = "none"
            /\ \A g \in Accepted :
                   /\ DictGet(ValueMap(g), "previous_page", Root) # f
                   /\ DictGet(ValueMap(g), "next_page", Root) # f

\* C12's case: a run that is over handed a source without publication_date
\* to a BlogCompositor that accepted another page, and flushed it.
C12_Witness ==
    /\ pc = "done"
    /\ Accepted # {}
    /\ \E i, j \in Events :
        /\ UndatedCall(i)
        /\ log[j].op = "flush"
        /\ log[j].comp = log[i].comp
        /\ i < j

----------------------------------------------------------------------------
(* C13: a regular file where a directory is due *)

\* A directory of the walk is a regular file in the production tree.  No
\* step removes or replaces such a file.
NonDirectoryInTheWay == \E d \in Dirs : dstKind[d] = "file"

\* C13: with a regular file where a directory is due, write_all raises
\* nothing, neither in its loop over the directories nor in a write; when
\* the run is over every directory not beneath the regular file exists and
\* every compositor of the rule table has been flushed.
C13_NonDirectoryDoesNotCrash ==
    NonDirectoryInTheWay =>
        /\ ~(pc = "crashed" /\ WriteAllEnded)
        /\ \A i \in Events : log[i].op # "writefail"
        /\ pc = "done" =>
               /\ \A d \in Dirs :
                      dstKind[Parent(d)] = "dir" => dstKind[d] # "none"
               /\ \A k \in 1..Len(actions) :
                      Flushes(actions[k][2][2], build) # {}

----------------------------------------------------------------------------
(* C14: the flush of StaticCompositor and of ImageCompositor *)

\* Event j is a composite call of the current run that noted a source for a
\* StaticCompositor or an ImageCompositor.
NotedForRender(j) ==
    /\ Noted(j)
    /\ log[j].build = build
    /\ InstanceKind(log[j].comp) \in {"StaticCompositor", "ImageCompositor"}

----------------------------------------------------------------------------
(* C15: whose state *)

\* Event i is a composite call after which a BlogCompositor holds the page.
AcceptedCall(i) ==
    /\ log[i].op = "composite"
    /\ log[i].ex
    /\ comps[log[i].comp].kind = "BlogCompositor"
    /\ log[i].path \in DictKeys(BlogStateOf(log[i].comp).pre_pages)

\* C15: a page prepared through one BlogCompositor is not in pre_pages, in
\* no set of slugs and has no keyword in keywords of any other
\* BlogCompositor; and when Site.__init__ has returned, the rule table holds
\* the patterns of the configuration's rules and no other.
C15_StatePerInstance ==
    /\ \A i \in Events :
        AcceptedCall(i) =>
            \A id \in 1..Len(comps) :
                (id # log[i].comp /\ comps[id].kind = "BlogCompositor") =>
                    LET other == BlogStateOf(id) IN
                    /\ log[i].path \notin DictKeys(other.pre_pages)
                    /\ \A k \in 1..Len(other.slugs) :
                           log[i].path \notin other.slugs[k][2]
                    /\ KeywordsOf(log[i].path) \cap other.keywords = {}
    /\ pc \in {"scan", "mkdir", "flush", "done"} =>
           /\ Len(regexes) = Len(Rules)
           /\ \A k \in 1..Len(Rules) : regexes[k] = Rules[k].re

----------------------------------------------------------------------------
(* C16: what read_page_spec returns *)

\* The markers among lines, the key of a marker, the last marker of a key,
\* and the lines from a marker to the next marker or to the end.
MarkersIn(lines) == {i \in 1..Len(lines) : IsMarker(lines[i])}
KeyAt(lines, i) == SubSeq(lines[i], 2, Len(lines[i]) - 1)
KeysIn(lines) == {KeyAt(lines, i) : i \in MarkersIn(lines)}
LastMarker(lines, k) ==
    CHOOSE i \in MarkersIn(lines) :
        /\ KeyAt(lines, i) = k
        /\ \A j \in MarkersIn(lines) : KeyAt(lines, j) = k => j <= i
BlockAfter(lines, i) ==
    LET later == {j \in MarkersIn(lines) : j > i}
        end == IF later = {} THEN Len(lines)
               ELSE (CHOOSE j \in later : \A h \in later : j <= h) - 1
    IN SubSeq(lines, i + 1, end)

\* spec has one entry for each key of lines and no other, and the value of
\* a key is the newline-joined block after the key's last marker.
ParsedAs(lines) ==
    /\ DictKeys(spec) = KeysIn(lines)
    /\ Len(spec) = Cardinality(KeysIn(lines))
    /\ \A k \in KeysIn(lines) :
           /\ DictHas(spec, k)
           /\ DictGet(spec, k, None) = Join(BlockAfter(lines, LastMarker(lines, k)))

\* The lines of the file without their trailing blanks.
Stripped == [i \in 1..Len(page_spec) |-> RStrip(page_spec[i])]

\* C16 as claimed: of a file that starts with a marker, read_page_spec
\* returns one entry for each distinct key, its value the newline-joined
\* lines of the file between the key's last marker and the next marker or
\* the end of the file.
C16_BlocksOfTheLines ==
    (pc = "parsed" /\ page_spec # <<>> /\ IsMarker(page_spec[1])) =>
        ParsedAs(page_spec)

\* C16 amended: the same of the lines without their trailing blanks, a
\* marker being a line that is one without its trailing blanks.
C16_BlocksOfTheStrippedLines ==
    (pc = "parsed" /\ page_spec # <<>> /\ IsMarker(Stripped[1])) =>
        ParsedAs(Stripped)

\* C16's case: read_page_spec has returned from a file that starts with a
\* marker, has a key twice and ends on an empty block.
C16_Witness ==
    /\ pc = "parsed"
    /\ Len(page_spec) = MaxLines
    /\ IsMarker(Stripped[1])
    /\ IsMarker(Stripped[Len(page_spec)])
    /\ KeyAt(Stripped, 1) = KeyAt(Stripped, Len(page_spec))
    /\ ~IsMarker(Stripped[2])
    /\ spec = << <<KeyAt(Stripped, 1), <<>> >> >>

----------------------------------------------------------------------------
(* C19: the lines before the first marker *)

\* The file from its first marker on; nothing of a file without a marker.
RECURSIVE FromFirstMarker(_)
FromFirstMarker(file) ==
    IF file = <<>> THEN <<>>
    ELSE IF IsMarker(RStrip(Head(file))) THEN file
    ELSE FromFirstMarker(Tail(file))

\* C19: read_page_spec returns what it returns of the file without the
\* lines before its first marker, so that none of these lines is in a
\* value; of a file without a marker it returns the empty dict.
C19_LinesBeforeFirstMarkerDiscarded ==
    pc = "parsed" =>
        /\ spec = ReadPageSpec(FromFirstMarker(page_spec))
        /\ MarkersIn(Stripped) = {} => spec = <<>>

----------------------------------------------------------------------------
(* C17: one composite call a file *)

\* The composite calls made for path in the current run, and the reports
\* that no pattern matches it.
CallsFor(path) ==
    {i \in Events : /\ log[i].op = "composite"
                    /\ log[i].path = path
                    /\ log[i].build = build}
NoMatchFor(path) ==
    {i \in Events : /\ log[i].op = "nomatch"
                    /\ log[i].path = path
                    /\ log[i].build = build}

\* C17: a file the walk has passed has had one composite call, on the
\* compositor of the first rule that matches it, when there is such a rule
\* and its template is loaded; it has had none when no rule matches it:
\* then it was reported once and act_on_file returned normally (if the run
\* stopped before the next step of the walk, it stopped in write_all).
C17_OneCompositePerFile ==
    \A k \in 1..(walkIdx - 1) :
        Walk[k].t = "file" =>
            LET filename == Walk[k].p
                rule == FirstRule(1, filename)
            IN /\ Cardinality(CallsFor(filename)) <= 1
               /\ rule = 0 =>
                      /\ CallsFor(filename) = {}
                      /\ Cardinality(NoMatchFor(filename)) = 1
                      /\ (walkIdx = k + 1 /\ pc = "crashed") => WriteAllEnded
               /\ (rule # 0 /\ Rules[rule].template \in templates) =>
                      /\ NoMatchFor(filename) = {}
                      /\ \E i \in CallsFor(filename) : log[i].comp = rule

----------------------------------------------------------------------------
(* C18: two posts of one day *)

\* Event i is a composite call, outside a dry run, that handed a source
\* with a publication_date to a BlogCompositor.
DatedCall(i) ==
    /\ log[i].op = "composite"
    /\ ~dryrun
    /\ comps[log[i].comp].kind = "BlogCompositor"
    /\ srcOk[log[i].path]
    /\ DictHas(content[log[i].path], "publication_date")

SlugOf(f) == Slug(DictGet(content[f], "publication_date", ""))

\* C18: when composite has been called on two sources whose publication
\* dates have the same slug, both calls have returned normally, both
\* sources are in the set that slugs holds for the slug, and both are in
\* pre_pages.
C18_SlugCollisionRepresented ==
    \A i, j \in Events :
        (/\ i < j
         /\ DatedCall(i)
         /\ DatedCall(j)
         /\ log[i].path # log[j].path
         /\ SlugOf(log[i].path) = SlugOf(log[j].path)) =>
            /\ log[i].ex
            /\ log[j].ex
            /\ {log[i].path, log[j].path}
                   \subseteq DictGet(blog.slugs, SlugOf(log[i].path), {})
            /\ {log[i].path, log[j].path} \subseteq Accepted

----------------------------------------------------------------------------
(* C20: the lines of the configuration that are not rules *)

\* Site.__init__ raised: the run stopped before the walk began.
InitRaised == pc = "crashed" /\ walkIdx = 1

\* C20: Site.__init__ raises on no line that starts with '#' and on no
\* empty line; when it has returned, the patterns are those of the rule
\* lines in the order of the file, one compositor has been constructed for
\* each rule line, of its class, and the templates loaded are those the
\* rule lines name.
C20_CommentsAndEmptyLinesIgnored ==
    /\ ~InitRaised
    /\ pc \in {"scan", "mkdir", "flush", "done"} =>
           /\ regexes = [k \in 1..Len(Rules) |-> Rules[k].re]
           /\ Len(comps) = Len(Rules)
           /\ \A k \in 1..Len(Rules) : comps[k].kind = Rules[k].comp
           /\ templates = {Rules[k].template : k \in 1..Len(Rules)}

----------------------------------------------------------------------------
(* C21: the directories before the writes *)

\* write_all is in, or past, its loop over the compositors.
InFlushes ==
    \/ pc \in {"flush", "done"}
    \/ pc = "crashed" /\ \E i \in Events : /\ log[i].op = "flush"
                                           /\ log[i].build = build

\* C21: while write_all is in its loop over the compositors, and after it,
\* no recorded directory is missing; within a run every os.mkdir comes
\* before the first compositor write call and before every file action; a
\* directory is created after its parent; and no file action is invoked on
\* a destination whose directory is missing.
C21_DirectoriesBeforeWrites ==
    /\ InFlushes =>
           \A k \in 1..Len(directories) : dstKind[directories[k]] # "none"
    /\ \A i, j \in Events :
           (/\ log[i].op = "mkdir"
            /\ log[j].op \in {"flush", "write", "writefail"}
            /\ log[i].build = log[j].build) => i < j
    /\ \A i, j \in Events :
           (/\ log[i].op = "mkdir"
            /\ log[j].op = "mkdir"
            /\ log[i].build = log[j].build
            /\ log[i].path = Parent(log[j].path)) => i < j
    /\ \A i \in Events :
           log[i].op \in {"write", "writefail"} =>
               dstKind[Parent(log[i].path)] # "none"

\* C21's case: a run is over in which write_all created a and then a/b and
\* a compositor then wrote a/b/c.
C21_Witness ==
    /\ pc = "done"
    /\ \E i, j, k, w \in Events :
        /\ i < j /\ j < k /\ k < w
        /\ log[i].op = "mkdir" /\ log[i].path = DirA
        /\ log[j].op = "mkdir" /\ log[j].path = DirAB
        /\ log[k].op = "flush"
        /\ log[w].op = "write" /\ log[w].path = FileC

====
